---- MODULE Spec2Model ----
(***************************************************************************)
(* Offline report queue (IndexedDB store "reports" in database             *)
(* "reportQueue"), its flush pass and the triggers that start a pass.      *)
(*                                                                         *)
(* Platform semantics the code relies on, modelled as the IndexedDB and    *)
(* Fetch standards define them:                                            *)
(*  - a transaction is active only while the task that created it runs     *)
(*    and while one of its request callbacks (with the microtasks the      *)
(*    callback starts) runs; when a callback returns and no request is     *)
(*    pending, the transaction starts to commit and accepts no request;    *)
(*  - readwrite transactions over the same object store run one at a       *)
(*    time, in creation order;                                             *)
(*  - fetch() settles in a later task than the one that called it; it      *)
(*    resolves for every HTTP response (2xx or not) and rejects only for   *)
(*    a network error or an aborted/timed-out request;                     *)
(*  - the complete event of a transaction is delivered once, to the        *)
(*    handler installed at that moment.                                    *)
(***************************************************************************)
EXTENDS Integers, Sequences, FiniteSets

\* ---------------------------------------------------------------- bounds
MaxPasses == 2          \* flush passes that may be started
MaxRecords == 2         \* records the store may come to hold, and
                        \* queueReport calls that may be started

MaxSubmits == 1         \* submissions of the report form
MaxFiles == 1           \* files attached to one submission
MaxRestarts == 1        \* times the page is stopped and loaded again
MaxSidePasses == 1      \* flush passes started next to a submission or
                        \* a restart

Passes == 1..MaxPasses
Enqs == 1..MaxRecords
Subs == 1..MaxSubmits
SidePasses == 1..MaxSidePasses

\* ------------------------------------------------------------ data model
\* Report payloads as handleSubmit builds them (description and location
\* stand for the fields of the report object).
Payloads ==
  { [description |-> "a", location |-> "null", media |-> <<>>],
    [description |-> "b", location |-> "geo", media |-> <<1>>] }

NoData == [description |-> "", location |-> "null", media |-> <<>>]

\* What the user has filled in when the form is submitted.
Forms ==
  { [description |-> "a", location |-> "null"],
    [description |-> "b", location |-> "geo"] }

\* The pre-signed URL for the k-th file, and url.split('?')[0].
PresignedUrl(k) == [path |-> k, query |-> "signature"]
StripQuery(url) == url.path

\* JSON.stringify(item.data): the request body is the JSON text of the
\* payload, here the list of its serialised members.
JSONStringify(d) ==
  << <<"description", d.description>>,
     <<"location", IF d.location = "null" THEN "null" ELSE "{lat,lon}">>,
     <<"media", d.media>> >>

\* Outcomes of one fetch('/reports', ...) call.
Outcomes == {"ok2xx", "non2xx", "neterr", "timeout"}

\* fetch() resolves for any HTTP response and rejects otherwise.
FetchResolves(o) == o \in {"ok2xx", "non2xx"}

\* What flushQueue can tell of an outcome: the response of a resolved
\* fetch, or that it rejected (the catch block ignores the error).
Settled(o) == IF FetchResolves(o) THEN o ELSE "rejected"

\* Owners of a database connection and of a transaction.
FlushOwner(p) == <<"flush", p>>
EnqOwner(e) == <<"enqueue", e>>
Owners == {FlushOwner(p) : p \in Passes} \cup {EnqOwner(e) : e \in Enqs}

Ids(st) == {r.id : r \in st}

\* The smallest id of a non-empty set of records.
MinId(st) == CHOOSE i \in Ids(st) : \A j \in Ids(st) : i <= j

RECURSIVE SortById(_)
SortById(st) ==
  IF st = {} THEN <<>>
  ELSE LET r == CHOOSE x \in st : x.id = MinId(st)
       IN <<r>> \o SortById(st \ {r})

\* store.getAll(): every record, in ascending key order.
GetAll(st) == SortById(st)

\* A key generator that does not advance.
NextKeyStuck(n) == n

\* The key generator of the autoIncrement store: the key given to the next
\* record, and the generator's number after that.
NextKey(n) == n + 1

\* A copy that leaves the media references out.
CloneWithoutMedia(d) ==
  [description |-> d.description, location |-> d.location, media |-> <<>>]

\* The structured clone that add() stores: a copy with the same members.
StructuredClone(d) ==
  [description |-> d.description, location |-> d.location,
   media |-> [k \in 1..Len(d.media) |-> d.media[k]]]

\* An add that replaces the contents of the store by the new record.
AddClear(st, n, d) == {[id |-> n, data |-> StructuredClone(d)]}

\* store.add({ data }): a structured clone of the value, under a generated
\* key.
Add(st, n, d) == st \cup {[id |-> n, data |-> StructuredClone(d)]}

\* A delete that takes effect whatever the state of the transaction.
DeleteAnyTx(st, txs, id) ==
  [threw |-> FALSE, store |-> {r \in st : r.id # id}]

\* store.delete(id) on a transaction in state txs: a request on a
\* transaction that is not active throws TransactionInactiveError and
\* changes nothing; deleting a missing key is not an error.
Delete(st, txs, id) ==
  IF txs = "active"
    THEN [threw |-> FALSE, store |-> {r \in st : r.id # id}]
    ELSE [threw |-> TRUE, store |-> st]

\* A loop that runs over the store as it is when each item is taken.
LoopLive(snapshot, st) == GetAll(st)

\* for (const item of items): the loop runs over the array read by getAll.
LoopItems(snapshot, st) == snapshot

\* A listener that starts the pass without handing its promise over.
WaitUntilNothing(pcOfPass) == TRUE

\* event.waitUntil(flushQueue()): the sync event is held open until the
\* promise of the pass settles.
WaitUntilSettled(pcOfPass) == pcOfPass \in {"resolved", "rejected"}

\* -------------------------------------------------------------- the state
VARIABLES
  store,        \* committed and in-transaction contents of object store
  nextId,       \* current number of the store's key generator
  txOrder,      \* owners of live transactions, in creation order
  txState,      \* per owner: none, pending, committing, finished, aborted
  openConns,    \* owners whose IDBDatabase connection is open
  fpc,          \* per pass: position of flushQueue
  fkind,        \* per pass: the trigger that started it
  items,        \* per pass: the array read by getAll
  results,      \* per pass: outcomes of the sends settled so far
  sends,        \* per pass: the fetch calls made so far (id and body)
  delCalls,     \* per pass: ids on which store.delete was called
  qpc,          \* per enqueue: position of queueReport
  qdata,        \* per enqueue: the argument of a call in progress or resolved
  qid,          \* per enqueue: key generated for its record (0: none)
  syncAcked,    \* per pass: its sync event has been released
  enqLog,       \* history: records whose enqueue completed, in order
  midFlush,     \* history: per enqueue, passes in flight when it completed
  doneBefore,   \* history: per pass, passes that had resolved when it began
  midDel,       \* history: per pass, ids that passes still sending had run
                \*   their delete on when it took its read
  spc,          \* per submission: position of handleSubmit
  report,       \* per submission: the report object built by handleSubmit
  files,        \* per submission: selected files not yet uploaded
  directBody,   \* per submission: body of its POST to /reports (<<>>: none)
  directOutcome, \* per submission: how that POST settled ("none": not yet)
  senq,         \* per submission: its call of queueReport (0: none)
  restarts,     \* number of times the page was stopped and loaded again
  confirmed,    \* history: ids sent with a 2xx response in earlier sessions
  stoppedAt     \* history: per pass, its position when the page last stopped

vars == <<store, nextId, txOrder, txState, openConns, fpc, fkind, items,
          results, sends, delCalls, qpc, qdata, qid, syncAcked,
          enqLog, midFlush, doneBefore, midDel,
          spc, report, files, directBody, directOutcome, senq,
          restarts, confirmed, stoppedAt>>

flushVars == <<fpc, fkind, items, results, sends, delCalls>>
enqVars == <<qpc, qdata, qid>>
histVars == <<enqLog, midFlush, doneBefore, midDel>>
submitVars == <<spc, report, files, directBody, directOutcome, senq>>
sessionVars == <<restarts, confirmed, stoppedAt>>
pageVars == <<submitVars, sessionVars>>

\* The records of a backlog b (a sequence of payloads), keyed 1..Len(b) by
\* the key generator in the sessions that enqueued them.
BacklogRecords(b) == {[id |-> i, data |-> b[i]] : i \in 1..Len(b)}

Backlogs == UNION {[1..n -> Payloads] : n \in 0..MaxRecords}

\* The database outlives the page: a session starts with the records that
\* earlier sessions enqueued, and with nothing in progress.
Init ==
  /\ \E b \in Backlogs :
       /\ store = BacklogRecords(b)
       /\ nextId = Len(b) + 1
       /\ enqLog = GetAll(BacklogRecords(b))
  /\ txOrder = <<>>
  /\ txState = [o \in Owners |-> "none"]
  /\ openConns = {}
  /\ fpc = [p \in Passes |-> "idle"]
  /\ fkind = [p \in Passes |-> "none"]
  /\ items = [p \in Passes |-> <<>>]
  /\ results = [p \in Passes |-> <<>>]
  /\ sends = [p \in Passes |-> <<>>]
  /\ delCalls = [p \in Passes |-> {}]
  /\ qpc = [e \in Enqs |-> "idle"]
  /\ qdata = [e \in Enqs |-> NoData]
  /\ qid = [e \in Enqs |-> 0]
  /\ syncAcked = [p \in Passes |-> FALSE]
  /\ midFlush = [e \in Enqs |-> {}]
  /\ doneBefore = [p \in Passes |-> {}]
  /\ midDel = [p \in Passes |-> {}]
  /\ spc = [s \in Subs |-> "idle"]
  /\ report = [s \in Subs |-> NoData]
  /\ files = [s \in Subs |-> 0]
  /\ directBody = [s \in Subs |-> <<>>]
  /\ directOutcome = [s \in Subs |-> "none"]
  /\ senq = [s \in Subs |-> 0]
  /\ restarts = 0
  /\ confirmed = {}
  /\ stoppedAt = [p \in Passes |-> "idle"]

\* A transaction runs its requests once every transaction created before it
\* over the same store has finished.
Started(o) == txOrder # <<>> /\ Head(txOrder) = o

\* Calls of queueReport whose add request has not run yet.
Adding == {e \in Enqs : txState[EnqOwner(e)] = "pending"}

\* The store has room for the record of one more call.
Room == (nextId - 1) + Cardinality(Adding) < MaxRecords

\* ------------------------------------------------------------- queueReport
\* queueReport(data) is called and the open request of openDB() succeeds:
\* the transaction is created, the add request is placed and complete(tx)
\* installs its handlers.
QueueReport(e, d) ==
  /\ qpc[e] = "idle"
  /\ Room
  /\ \A e2 \in Enqs : e2 < e => qpc[e2] # "idle"
  /\ qpc' = [qpc EXCEPT ![e] = "adding"]
  /\ qdata' = [qdata EXCEPT ![e] = d]
  /\ openConns' = openConns \cup {EnqOwner(e)}
  /\ txOrder' = Append(txOrder, EnqOwner(e))
  /\ txState' = [txState EXCEPT ![EnqOwner(e)] = "pending"]
  /\ UNCHANGED <<store, nextId, qid, syncAcked>>
  /\ UNCHANGED flushVars
  /\ UNCHANGED histVars

\* queueReport(data) is called and the open request fails: openDB()
\* rejects and so does queueReport.
QueueReportOpenFail(e, d) ==
  /\ qpc[e] = "idle"
  /\ \A e2 \in Enqs : e2 < e => qpc[e2] # "idle"
  /\ qpc' = [qpc EXCEPT ![e] = "rejected"]
  /\ UNCHANGED <<store, nextId, txOrder, txState, openConns, qdata, qid,
                 syncAcked>>
  /\ UNCHANGED flushVars
  /\ UNCHANGED histVars

\* queueReport called from outside the report form.
Enqueue(e, d) == QueueReport(e, d) /\ UNCHANGED pageVars
EnqueueOpenFail(e, d) == QueueReportOpenFail(e, d) /\ UNCHANGED pageVars

\* The add request runs: the record gets the next generated key.  No
\* request is pending afterwards, so the transaction starts to commit.
EnqAdd(e) ==
  /\ qpc[e] = "adding"
  /\ txState[EnqOwner(e)] = "pending"
  /\ Started(EnqOwner(e))
  /\ store' = Add(store, nextId, qdata[e])
  /\ qid' = [qid EXCEPT ![e] = nextId]
  /\ nextId' = NextKey(nextId)
  /\ txState' = [txState EXCEPT ![EnqOwner(e)] = "committing"]
  /\ UNCHANGED <<txOrder, openConns, qpc, qdata, syncAcked>>
  /\ UNCHANGED flushVars
  /\ UNCHANGED histVars
  /\ UNCHANGED pageVars

\* The add request fails (quota, write error): the error event reaches
\* tx.onerror, complete(tx) rejects and queueReport rejects before
\* db.close(); the transaction aborts.
EnqAddFail(e) ==
  /\ qpc[e] = "adding"
  /\ txState[EnqOwner(e)] = "pending"
  /\ Started(EnqOwner(e))
  /\ qpc' = [qpc EXCEPT ![e] = "rejected"]
  /\ txState' = [txState EXCEPT ![EnqOwner(e)] = "aborted"]
  /\ txOrder' = Tail(txOrder)
  /\ qdata' = [qdata EXCEPT ![e] = NoData]
  /\ UNCHANGED <<store, nextId, openConns, qid, syncAcked>>
  /\ UNCHANGED flushVars
  /\ UNCHANGED histVars
  /\ UNCHANGED pageVars

\* Passes that have read their snapshot and have not settled.
InFlight == {p \in Passes : fpc[p] \in {"sending", "awaitComplete"}}

\* The transaction commits: oncomplete resolves complete(tx), the
\* connection is closed and queueReport resolves.
EnqTxComplete(e) ==
  /\ qpc[e] = "adding"
  /\ txState[EnqOwner(e)] = "committing"
  /\ qpc' = [qpc EXCEPT ![e] = "resolved"]
  /\ txState' = [txState EXCEPT ![EnqOwner(e)] = "finished"]
  /\ txOrder' = Tail(txOrder)
  /\ openConns' = openConns \ {EnqOwner(e)}
  /\ enqLog' = Append(enqLog, CHOOSE r \in store : r.id = qid[e])
  /\ midFlush' = [midFlush EXCEPT ![e] = InFlight]
  /\ UNCHANGED <<store, nextId, qdata, qid, syncAcked, doneBefore, midDel>>
  /\ UNCHANGED flushVars
  /\ UNCHANGED pageVars

\* The commit fails: the transaction aborts, its write and the key
\* generator's step are rolled back, and only an abort event is fired,
\* for which complete(tx) has no handler: queueReport stays pending.
EnqTxAbort(e) ==
  /\ qpc[e] = "adding"
  /\ txState[EnqOwner(e)] = "committing"
  /\ txState' = [txState EXCEPT ![EnqOwner(e)] = "aborted"]
  /\ txOrder' = Tail(txOrder)
  /\ store' = {r \in store : r.id # qid[e]}
  /\ nextId' = qid[e]
  /\ qid' = [qid EXCEPT ![e] = 0]
  /\ qdata' = [qdata EXCEPT ![e] = NoData]
  /\ UNCHANGED <<openConns, qpc, syncAcked>>
  /\ UNCHANGED flushVars
  /\ UNCHANGED histVars
  /\ UNCHANGED pageVars

\* --------------------------------------------------------------- flushQueue
\* flushQueue() is called and the open request of openDB() succeeds: the
\* readwrite transaction is created and getAll is requested.
FlushQueue(p, kind) ==
  /\ fpc[p] = "idle"
  /\ \A p2 \in Passes : p2 < p => fpc[p2] # "idle"
  /\ fpc' = [fpc EXCEPT ![p] = "reading"]
  /\ fkind' = [fkind EXCEPT ![p] = kind]
  /\ openConns' = openConns \cup {FlushOwner(p)}
  /\ txOrder' = Append(txOrder, FlushOwner(p))
  /\ txState' = [txState EXCEPT ![FlushOwner(p)] = "pending"]
  /\ doneBefore' = [doneBefore EXCEPT
                      ![p] = {p2 \in Passes : fpc[p2] = "resolved"}]
  /\ UNCHANGED <<store, nextId, items, results, sends, delCalls,
                 syncAcked, enqLog, midFlush, midDel>>
  /\ UNCHANGED enqVars
  /\ UNCHANGED pageVars

\* flushQueue() is called and the open request fails: openDB() rejects and
\* nothing catches it, so flushQueue rejects.
FlushQueueOpenFail(p, kind) ==
  /\ fpc[p] = "idle"
  /\ \A p2 \in Passes : p2 < p => fpc[p2] # "idle"
  /\ fpc' = [fpc EXCEPT ![p] = "rejected"]
  /\ fkind' = [fkind EXCEPT ![p] = kind]
  /\ doneBefore' = [doneBefore EXCEPT
                      ![p] = {p2 \in Passes : fpc[p2] = "resolved"}]
  /\ UNCHANGED <<store, nextId, txOrder, txState, openConns, items,
                 results, sends, delCalls, syncAcked, enqLog, midFlush, midDel>>
  /\ UNCHANGED enqVars
  /\ UNCHANGED pageVars

\* One call of flushQueue, with the outcome of its open request.
Flush(p, kind, opened) ==
  IF opened THEN FlushQueue(p, kind) ELSE FlushQueueOpenFail(p, kind)

\* window 'online' listener: the promise of the pass is dropped.
OnlineEvent(p, opened) == Flush(p, "detached", opened)

\* The call made when the report form is mounted: the promise is dropped.
Startup(p, opened) == Flush(p, "detached", opened)

\* Service worker 'sync' listener: only the tag 'report-sync' starts a
\* pass, whose promise is handed to event.waitUntil; any other tag is
\* ignored.
SyncEvent(p, tag, opened) ==
  IF tag = "report-sync"
    THEN Flush(p, "sync", opened)
    ELSE UNCHANGED vars

\* The platform releases the sync event once the promise given to
\* waitUntil has settled.
SyncAck(p) ==
  /\ fkind[p] = "sync"
  /\ ~syncAcked[p]
  /\ WaitUntilSettled(fpc[p])
  /\ syncAcked' = [syncAcked EXCEPT ![p] = TRUE]
  /\ UNCHANGED <<store, nextId, txOrder, txState, openConns>>
  /\ UNCHANGED flushVars
  /\ UNCHANGED enqVars
  /\ UNCHANGED histVars
  /\ UNCHANGED pageVars

\* The request body of the k-th fetch of a pass over the array L.
SendOf(L, k) == [id |-> L[k].id, body |-> JSONStringify(L[k].data)]

\* Ids on which the passes other than p that are still in their loop have
\* called store.delete.
DeletesInProgress(p) ==
  UNION {delCalls[a] : a \in {x \in Passes \ {p} : fpc[x] = "sending"}}

\* getAll succeeds: the array is read; the loop calls fetch for the first
\* item and waits for it, or, with no item, complete(tx) installs its
\* handlers.  The callback returns with no request pending, so the
\* transaction starts to commit.
FlushRead(p) ==
  /\ fpc[p] = "reading"
  /\ txState[FlushOwner(p)] = "pending"
  /\ Started(FlushOwner(p))
  /\ LET snapshot == GetAll(store)
         L == LoopItems(snapshot, store)
     IN /\ items' = [items EXCEPT ![p] = snapshot]
        /\ IF L = <<>>
             THEN /\ fpc' = [fpc EXCEPT ![p] = "awaitComplete"]
                  /\ sends' = sends
             ELSE /\ fpc' = [fpc EXCEPT ![p] = "sending"]
                  /\ sends' = [sends EXCEPT ![p] = <<SendOf(L, 1)>>]
  /\ txState' = [txState EXCEPT ![FlushOwner(p)] = "committing"]
  /\ midDel' = [midDel EXCEPT ![p] = DeletesInProgress(p)]
  /\ UNCHANGED <<store, nextId, txOrder, openConns, fkind, results,
                 delCalls, syncAcked, enqLog, midFlush,
                 doneBefore>>
  /\ UNCHANGED enqVars
  /\ UNCHANGED pageVars

\* getAll fails: the request has no onerror handler, so the promise of the
\* array never settles and flushQueue stays pending; the unhandled error
\* aborts the transaction.
FlushReadFail(p) ==
  /\ fpc[p] = "reading"
  /\ txState[FlushOwner(p)] = "pending"
  /\ Started(FlushOwner(p))
  /\ txState' = [txState EXCEPT ![FlushOwner(p)] = "aborted"]
  /\ txOrder' = Tail(txOrder)
  /\ UNCHANGED <<store, nextId, openConns, syncAcked>>
  /\ UNCHANGED flushVars
  /\ UNCHANGED enqVars
  /\ UNCHANGED histVars
  /\ UNCHANGED pageVars

\* A loop that gives up the rest of the array after a send that failed.
StopOnFailure(o, k, n) == k < n /\ o = "ok2xx"

\* Whether the for-of loop goes on to item k + 1 of n after the k-th send
\* settled with outcome o: the try/catch is inside the loop body, so the
\* outcome changes nothing.
LoopContinues(o, k, n) == k < n

\* The fetch in flight settles with outcome o.  When it resolved,
\* store.delete(item.id) is called inside the try block; when it rejected,
\* or when delete threw, the catch block keeps the item.  Then the loop
\* calls fetch for the next item or, after the last one, complete(tx)
\* installs its handlers.
SendSettle(p, o) ==
  /\ fpc[p] = "sending"
  /\ LET k == Len(results[p]) + 1
         L == LoopItems(items[p], store)
         id == sends[p][k].id
         d == Delete(store, txState[FlushOwner(p)], id)
     IN /\ results' = [results EXCEPT ![p] = Append(@, Settled(o))]
        /\ IF FetchResolves(o)
             THEN /\ store' = d.store
                  /\ delCalls' = [delCalls EXCEPT ![p] = @ \cup {id}]
             ELSE /\ store' = store
                  /\ delCalls' = delCalls
        /\ IF LoopContinues(o, k, Len(L))
             THEN /\ sends' = [sends EXCEPT ![p] = Append(@, SendOf(L, k + 1))]
                  /\ fpc' = fpc
             ELSE /\ sends' = sends
                  /\ fpc' = [fpc EXCEPT ![p] = "awaitComplete"]
  /\ UNCHANGED <<nextId, txOrder, txState, openConns, fkind, items,
                 syncAcked>>
  /\ UNCHANGED enqVars
  /\ UNCHANGED histVars
  /\ UNCHANGED pageVars

\* The transaction of a pass commits and its complete event is fired.  If
\* complete(tx) has installed oncomplete by then, the pass closes the
\* connection and resolves; otherwise the event finds no handler.
FlushTxComplete(p) ==
  /\ txState[FlushOwner(p)] = "committing"
  /\ txState' = [txState EXCEPT ![FlushOwner(p)] = "finished"]
  /\ txOrder' = Tail(txOrder)
  /\ IF fpc[p] = "awaitComplete"
       THEN /\ fpc' = [fpc EXCEPT ![p] = "resolved"]
            /\ openConns' = openConns \ {FlushOwner(p)}
       ELSE /\ fpc' = fpc
            /\ openConns' = openConns
  /\ UNCHANGED <<store, nextId, fkind, items, results, sends, delCalls,
                 syncAcked>>
  /\ UNCHANGED enqVars
  /\ UNCHANGED histVars
  /\ UNCHANGED pageVars

\* The commit of the transaction of a pass fails: an abort event is fired,
\* which complete(tx) does not listen to.
FlushTxAbort(p) ==
  /\ txState[FlushOwner(p)] = "committing"
  /\ txState' = [txState EXCEPT ![FlushOwner(p)] = "aborted"]
  /\ txOrder' = Tail(txOrder)
  /\ UNCHANGED <<store, nextId, openConns, syncAcked>>
  /\ UNCHANGED flushVars
  /\ UNCHANGED enqVars
  /\ UNCHANGED histVars
  /\ UNCHANGED pageVars

\* Ids whose send by pass p the collector answered with a 2xx response.
OkIds(p) == {sends[p][k].id : k \in {j \in 1..Len(results[p]) :
                                       results[p][j] = "ok2xx"}}

\* The record added by a transaction of queueReport that has not committed.
Uncommitted ==
  {r \in store : \E e \in Enqs : /\ txState[EnqOwner(e)] = "committing"
                                 /\ qid[e] = r.id}

\* The contents of the store as other transactions and later sessions see it.
Committed == store \ Uncommitted

\* ---------------------------------------------------------- the report form
queueVars == <<store, nextId, txOrder, txState, openConns, syncAcked,
               flushVars, enqVars, histVars>>

\* fetch('/reports', ...) is called with the report r as built so far.
PostReport(s, r) ==
  /\ directBody' = [directBody EXCEPT ![s] = JSONStringify(r)]
  /\ spc' = [spc EXCEPT ![s] = "posting"]

\* The catch block of handleSubmit: queueReport(report) is called and
\* awaited; opened is the outcome of its open request.
CatchAndQueue(s, opened) ==
  \E e \in Enqs :
    /\ IF opened THEN QueueReport(e, report[s])
                 ELSE QueueReportOpenFail(e, report[s])
    /\ senq' = [senq EXCEPT ![s] = e]
    /\ spc' = [spc EXCEPT ![s] = "queueing"]

\* The form is submitted with n files attached: the report object is built
\* with an empty media list, and the first upload is started or, with no
\* file, the report is posted.
HandleSubmit(s, form, n) ==
  /\ spc[s] = "idle"
  /\ \A s2 \in Subs : s2 < s => spc[s2] # "idle"
  /\ LET r == [description |-> form.description,
               location |-> form.location, media |-> <<>>]
     IN /\ report' = [report EXCEPT ![s] = r]
        /\ files' = [files EXCEPT ![s] = n]
        /\ IF n = 0
             THEN PostReport(s, r)
             ELSE /\ spc' = [spc EXCEPT ![s] = "uploading"]
                  /\ directBody' = directBody
  /\ UNCHANGED <<directOutcome, senq>>
  /\ UNCHANGED sessionVars
  /\ UNCHANGED queueVars

\* uploadMedia returns for the file in turn: its URL without the query is
\* pushed to report.media; the next upload is started or, after the last
\* file, the report is posted.
UploadDone(s) ==
  /\ spc[s] = "uploading"
  /\ LET k == Len(report[s].media) + 1
         r == [report[s] EXCEPT !.media = Append(@, StripQuery(PresignedUrl(k)))]
     IN /\ report' = [report EXCEPT ![s] = r]
        /\ files' = [files EXCEPT ![s] = @ - 1]
        /\ IF files[s] = 1
             THEN PostReport(s, r)
             ELSE UNCHANGED <<spc, directBody>>
  /\ UNCHANGED <<directOutcome, senq>>
  /\ UNCHANGED sessionVars
  /\ UNCHANGED queueVars

\* uploadMedia throws for the file in turn: the catch block queues the
\* report as built so far; no POST to /reports is made.
UploadFail(s, opened) ==
  /\ spc[s] = "uploading"
  /\ CatchAndQueue(s, opened)
  /\ UNCHANGED <<report, files, directBody, directOutcome>>
  /\ UNCHANGED sessionVars

\* The POST to /reports settles with outcome o.  When it resolved, with
\* whatever status, the try block ends and 'Report submitted' is shown;
\* when it rejected, the catch block queues the report.
PostSettle(s, o, opened) ==
  /\ spc[s] = "posting"
  /\ directOutcome' = [directOutcome EXCEPT ![s] = Settled(o)]
  /\ IF FetchResolves(o)
       THEN /\ opened
            /\ spc' = [spc EXCEPT ![s] = "alerted"]
            /\ UNCHANGED senq
            /\ UNCHANGED queueVars
       ELSE CatchAndQueue(s, opened)
  /\ UNCHANGED <<report, files, directBody>>
  /\ UNCHANGED sessionVars

\* queueReport(report) resolved: 'Report submitted' is shown.
SubmitQueued(s) ==
  /\ spc[s] = "queueing"
  /\ qpc[senq[s]] = "resolved"
  /\ spc' = [spc EXCEPT ![s] = "alerted"]
  /\ UNCHANGED <<report, files, directBody, directOutcome, senq>>
  /\ UNCHANGED sessionVars
  /\ UNCHANGED queueVars

\* queueReport(report) rejected: handleSubmit rejects before the alert.
SubmitQueueFailed(s) ==
  /\ spc[s] = "queueing"
  /\ qpc[senq[s]] = "rejected"
  /\ spc' = [spc EXCEPT ![s] = "rejected"]
  /\ UNCHANGED <<report, files, directBody, directOutcome, senq>>
  /\ UNCHANGED sessionVars
  /\ UNCHANGED queueVars

\* ------------------------------------------------------------- page restart
\* A database that keeps nothing from one session to the next.
PersistedNothing(st, uncommitted) == {}

\* indexedDB.open(DB_NAME, 1): the database is kept on disk, so a new
\* session finds what the transactions of earlier sessions committed; a
\* transaction that had not committed when the page stopped is rolled back.
Persisted(st, uncommitted) == st \ uncommitted

\* The page (or the worker) stops at any point and is loaded again: every
\* call in progress is gone with its connection and its transaction, the
\* store keeps what was committed, and the module is initialised anew.
Restart ==
  /\ restarts < MaxRestarts
  /\ restarts' = restarts + 1
  /\ confirmed' = confirmed \cup UNION {OkIds(p) : p \in Passes}
  /\ stoppedAt' = fpc
  /\ store' = Persisted(store, Uncommitted)
  /\ nextId' = nextId - Cardinality(Uncommitted)
  /\ txOrder' = <<>>
  /\ txState' = [o \in Owners |-> "none"]
  /\ openConns' = {}
  /\ fpc' = [p \in Passes |-> "idle"]
  /\ fkind' = [p \in Passes |-> "none"]
  /\ items' = [p \in Passes |-> <<>>]
  /\ results' = [p \in Passes |-> <<>>]
  /\ sends' = [p \in Passes |-> <<>>]
  /\ delCalls' = [p \in Passes |-> {}]
  /\ qpc' = [e \in Enqs |-> "idle"]
  /\ qdata' = [e \in Enqs |-> NoData]
  /\ qid' = [e \in Enqs |-> 0]
  /\ syncAcked' = [p \in Passes |-> FALSE]
  /\ midFlush' = [e \in Enqs |-> {}]
  /\ doneBefore' = [p \in Passes |-> {}]
  /\ midDel' = [p \in Passes |-> {}]
  /\ spc' = [s \in Subs |-> "idle"]
  /\ report' = [s \in Subs |-> NoData]
  /\ files' = [s \in Subs |-> 0]
  /\ directBody' = [s \in Subs |-> <<>>]
  /\ directOutcome' = [s \in Subs |-> "none"]
  /\ senq' = [s \in Subs |-> 0]
  /\ UNCHANGED enqLog

\* ------------------------------------------------------------ specification
Tags == {"report-sync", "other"}

Next ==
  \/ \E e \in Enqs, d \in Payloads : Enqueue(e, d)
  \/ \E e \in Enqs, d \in Payloads : EnqueueOpenFail(e, d)
  \/ \E e \in Enqs : EnqAdd(e)
  \/ \E e \in Enqs : EnqAddFail(e)
  \/ \E e \in Enqs : EnqTxComplete(e)
  \/ \E e \in Enqs : EnqTxAbort(e)
  \/ \E p \in Passes, opened \in BOOLEAN : OnlineEvent(p, opened)
  \/ \E p \in Passes, opened \in BOOLEAN : Startup(p, opened)
  \/ \E p \in Passes, tag \in Tags, opened \in BOOLEAN :
       SyncEvent(p, tag, opened)
  \/ \E p \in Passes : SyncAck(p)
  \/ \E p \in Passes : FlushRead(p)
  \/ \E p \in Passes : FlushReadFail(p)
  \/ \E p \in Passes, o \in Outcomes : SendSettle(p, o)
  \/ \E p \in Passes : FlushTxComplete(p)
  \/ \E p \in Passes : FlushTxAbort(p)

Spec == Init /\ [][Next]_vars

\* The report form next to the queue: every call of queueReport comes from
\* handleSubmit.
SubmitNext ==
  \/ \E s \in Subs, form \in Forms, n \in 0..MaxFiles : HandleSubmit(s, form, n)
  \/ \E s \in Subs : UploadDone(s)
  \/ \E s \in Subs, opened \in BOOLEAN : UploadFail(s, opened)
  \/ \E s \in Subs, o \in Outcomes, opened \in BOOLEAN : PostSettle(s, o, opened)
  \/ \E s \in Subs : SubmitQueued(s)
  \/ \E s \in Subs : SubmitQueueFailed(s)
  \/ \E e \in Enqs : EnqAdd(e)
  \/ \E e \in Enqs : EnqAddFail(e)
  \/ \E e \in Enqs : EnqTxComplete(e)
  \/ \E e \in Enqs : EnqTxAbort(e)
  \/ \E p \in SidePasses, opened \in BOOLEAN : OnlineEvent(p, opened)
  \/ \E p \in SidePasses, opened \in BOOLEAN : Startup(p, opened)
  \/ \E p \in SidePasses, tag \in Tags, opened \in BOOLEAN :
       SyncEvent(p, tag, opened)
  \/ \E p \in SidePasses : SyncAck(p)
  \/ \E p \in SidePasses : FlushRead(p)
  \/ \E p \in SidePasses : FlushReadFail(p)
  \/ \E p \in SidePasses, o \in Outcomes : SendSettle(p, o)
  \/ \E p \in SidePasses : FlushTxComplete(p)
  \/ \E p \in SidePasses : FlushTxAbort(p)

SubmitSpec == Init /\ [][SubmitNext]_vars

\* The queue in a page that may be stopped and loaded again.
RestartNext ==
  \/ Restart
  \/ \E e \in Enqs, d \in Payloads : Enqueue(e, d)
  \/ \E e \in Enqs, d \in Payloads : EnqueueOpenFail(e, d)
  \/ \E e \in Enqs : EnqAdd(e)
  \/ \E e \in Enqs : EnqAddFail(e)
  \/ \E e \in Enqs : EnqTxComplete(e)
  \/ \E e \in Enqs : EnqTxAbort(e)
  \/ \E p \in SidePasses, opened \in BOOLEAN : OnlineEvent(p, opened)
  \/ \E p \in SidePasses, opened \in BOOLEAN : Startup(p, opened)
  \/ \E p \in SidePasses, tag \in Tags, opened \in BOOLEAN :
       SyncEvent(p, tag, opened)
  \/ \E p \in SidePasses : SyncAck(p)
  \/ \E p \in SidePasses : FlushRead(p)
  \/ \E p \in SidePasses : FlushReadFail(p)
  \/ \E p \in SidePasses, o \in Outcomes : SendSettle(p, o)
  \/ \E p \in SidePasses : FlushTxComplete(p)
  \/ \E p \in SidePasses : FlushTxAbort(p)

RestartSpec == Init /\ [][RestartNext]_vars

TypeOK ==
  /\ nextId \in 1..(MaxRecords + 1)
  /\ Ids(store) \subseteq 1..MaxRecords
  /\ \A o \in Owners :
       txState[o] \in {"none", "pending", "committing", "finished", "aborted"}
  /\ \A p \in Passes :
       /\ fpc[p] \in {"idle", "reading", "sending", "awaitComplete",
                      "resolved", "rejected"}
       /\ fkind[p] \in {"none", "detached", "sync"}
       /\ Len(results[p]) <= Len(sends[p])
  /\ \A e \in Enqs :
       qpc[e] \in {"idle", "adding", "resolved", "rejected"}

\* ------------------------------------------------------------------ claims
Resolved(p) == fpc[p] = "resolved"

\* Ids for which pass p has called fetch.
SentIds(p) == {sends[p][k].id : k \in 1..Len(sends[p])}

\* Every send of pass p has settled, and settled with a 2xx response.
AllOk(p) ==
  /\ Len(results[p]) = Len(sends[p])
  /\ \A k \in 1..Len(results[p]) : results[p][k] = "ok2xx"

\* Records whose enqueue has completed.
EverEnqueued == {enqLog[i] : i \in 1..Len(enqLog)}

\* The records of the snapshot of pass p whose send did not succeed.
FailedOf(p) == {items[p][k] : k \in {j \in 1..Len(results[p]) :
                                       results[p][j] # "ok2xx"}}

SnapshotOf(p) == {items[p][k] : k \in 1..Len(items[p])}

\* C1: a record that was enqueued is absent from the store only if some
\* send of it by a flush pass got a 2xx response; a record whose sends all
\* ended in a network error, a timeout or a non-2xx response is still in the
\* store, unchanged.
C1_RemovedOnlyIfDelivered ==
  \A r \in EverEnqueued :
    r \notin store => \E p \in Passes : r.id \in OkIds(p)

\* C1 witness: a completed pass got a non-2xx response for one record and a
\* rejected fetch for another, and both records are still in the store.
C1_Witness ==
  \E p \in Passes :
    /\ Resolved(p)
    /\ \E k1, k2 \in 1..Len(results[p]) :
         /\ results[p][k1] = "non2xx"
         /\ results[p][k2] = "rejected"
         /\ items[p][k1] \in store
         /\ items[p][k2] \in store

\* C2: when every send of a pass succeeded, then after the pass the store
\* holds none of the N records it read, and fetch was called exactly N
\* times, once with the JSON text of each record's payload.
C2_AllDeliveredEmptiesStore ==
  \A p \in Passes :
    (Resolved(p) /\ AllOk(p)) =>
      /\ SnapshotOf(p) \cap store = {}
      /\ Len(sends[p]) = Len(items[p])
      /\ \A k \in 1..Len(items[p]) : sends[p][k] = SendOf(items[p], k)

\* C3: when the sends of a pass failed for a non-empty strict subset S of
\* the records it read, then after the pass exactly the records of S,
\* unchanged and in ascending id order, are what is left of them in the
\* store.
C3_OnlyFailedRemain ==
  \A p \in Passes :
    (Resolved(p) /\ FailedOf(p) # {} /\ FailedOf(p) # SnapshotOf(p)) =>
      /\ SnapshotOf(p) \cap store = FailedOf(p)
      /\ GetAll(SnapshotOf(p) \cap store) = GetAll(FailedOf(p))

\* C4: a flush pass never rejects towards its caller.
C4_FlushNeverRejects == \A p \in Passes : fpc[p] # "rejected"

\* C5: a record whose send was answered with a 2xx response is no longer in
\* the store once the pass that sent it has completed.
C5_DeliveredThenRemoved ==
  \A p \in Passes :
    Resolved(p) => \A r \in store : r.id \notin OkIds(p)

\* The ids of a sequence of records increase strictly.
Ascending(recs) ==
  \A i, j \in 1..Len(recs) : i < j => recs[i].id < recs[j].id

\* C6: a completed enqueue(P) left a record with payload P in the store,
\* under an id greater than that of every record enqueued before it; ids in
\* the store are unique; getAll returns the records in ascending id order.
C6_IdsIncrease ==
  /\ Ascending(enqLog)
  /\ \A e \in Enqs :
       qpc[e] = "resolved" => [id |-> qid[e], data |-> qdata[e]] \in EverEnqueued
  /\ \A r1, r2 \in store : r1.id = r2.id => r1 = r2
  /\ \A r \in store : r.id < nextId
  /\ \A p \in Passes : Ascending(items[p])

\* C6 witness: two calls of queueReport have completed and a pass has read
\* both records.
C6_Witness ==
  /\ \A e \in Enqs : qpc[e] = "resolved"
  /\ Len(enqLog) >= 2
  /\ \E p \in Passes : Len(items[p]) >= 2

\* Pass p has called fetch for every record it read and all have settled.
SendsDone(p) ==
  /\ fpc[p] \in {"awaitComplete", "resolved"}
  /\ Len(results[p]) = Len(items[p])

\* C7: a record whose enqueue completed after a pass had read its snapshot
\* and before that pass settled is in the store from then on, also after
\* the pass, and that pass never sends it.
C7_MidFlushEnqueueKept ==
  \A e \in Enqs : \A p \in midFlush[e] :
    /\ [id |-> qid[e], data |-> qdata[e]] \in store
    /\ qid[e] \notin SentIds(p)

\* C7 witness: an enqueue completed while a pass was sending, and the pass
\* has since made and settled all its sends.
C7_Witness ==
  \E e \in Enqs : \E p \in midFlush[e] :
    /\ qpc[e] = "resolved"
    /\ Len(items[p]) >= 1
    /\ SendsDone(p)

\* C8: a pass started after another pass had completed, with no enqueue
\* completed since that pass read, never sends a record whose send by that
\* pass succeeded; if all sends of the first pass succeeded, the second
\* makes no send.
C8_SecondPassSendsOnlyLeftovers ==
  \A b \in Passes : \A a \in doneBefore[b] :
    EverEnqueued \subseteq SnapshotOf(a) =>
      /\ SentIds(b) \cap OkIds(a) = {}
      /\ AllOk(a) => sends[b] = <<>>

\* Pass b reads its snapshot in this step.
Reads(b) == fpc[b] = "reading" /\ fpc'[b] \in {"sending", "awaitComplete"}

\* C9: a record on which a pass has run its delete, after a confirmed send
\* and in a transaction that has since committed, before another pass takes
\* its read is absent from that read, so that the second pass never sends
\* it.
C9_DeletedAbsentFromLaterRead ==
  [][\A b \in Passes : Reads(b) =>
       \A a \in Passes \ {b} :
         txState[FlushOwner(a)] = "finished" =>
           {r.id : r \in SnapshotOf(b)}' \cap delCalls[a] = {}]_vars

\* C10: a sync event is released only when the pass it started has
\* settled: no send of the pass is in flight and its transaction is not
\* waiting to run or to commit.
C10_AckAfterSettle ==
  \A p \in Passes :
    syncAcked[p] =>
      /\ fpc[p] \in {"resolved", "rejected"}
      /\ Len(results[p]) = Len(sends[p])
      /\ txState[FlushOwner(p)] \notin {"pending", "committing"}

\* C10 witness: the sync event of a pass that made a send and resolved has
\* been released.
C10_Witness ==
  \E p \in Passes :
    /\ syncAcked[p]
    /\ Resolved(p)
    /\ Len(sends[p]) >= 1

\* C11: when the storage could not be opened or written for a call of
\* queueReport, the call has ended by rejecting, it never resolves, and the
\* store holds what it held before.
C11_StorageFailureRejects ==
  \A e \in Enqs :
    txState[EnqOwner(e)] = "aborted" =>
      /\ qpc[e] = "rejected"
      /\ qid[e] = 0
      /\ store \subseteq EverEnqueued

\* C12: when the transaction of a pass has failed after the pass ran its
\* delete on records whose send was confirmed, those records are out of the
\* store, the other records of the snapshot are in it, and the pass has not
\* resolved.
C12_AbortKeepsDeletes ==
  \A p \in Passes :
    (txState[FlushOwner(p)] = "aborted" /\ delCalls[p] # {}) =>
      /\ delCalls[p] \cap Ids(store) = {}
      /\ \A r \in SnapshotOf(p) : r.id \notin delCalls[p] => r \in store
      /\ ~Resolved(p)

\* C15: a pass that has nothing left to wait for (no send in flight, its
\* transaction finished or aborted) has settled.
C15_PassSettles ==
  \A p \in Passes :
    (txState[FlushOwner(p)] \in {"finished", "aborted"} /\ fpc[p] # "sending")
      => fpc[p] \in {"resolved", "rejected"}

\* C19: a call of queueReport or flushQueue that has settled holds no open
\* connection.
C19_ConnectionsClosed ==
  /\ \A e \in Enqs :
       qpc[e] \in {"resolved", "rejected"} => EnqOwner(e) \notin openConns
  /\ \A p \in Passes :
       fpc[p] \in {"resolved", "rejected"} => FlushOwner(p) \notin openConns

\* C13: the fetch calls of a pass are those for the records of its snapshot,
\* one for each record, in the order of the snapshot, which is by ascending
\* id; the next record is sent whatever the outcome of the sends before it,
\* and once the loop is over every record of the snapshot has been sent once.
C13_EachSnapshotRecordSentOnce ==
  \A p \in Passes :
    /\ Len(sends[p]) <= Len(items[p])
    /\ \A k \in 1..Len(sends[p]) : sends[p][k] = SendOf(items[p], k)
    /\ \A j, k \in 1..Len(sends[p]) : j < k => sends[p][j].id < sends[p][k].id
    /\ fpc[p] = "sending" => Len(sends[p]) = Len(results[p]) + 1
    /\ fpc[p] \in {"awaitComplete", "resolved"} =>
         /\ Len(sends[p]) = Len(items[p])
         /\ Len(results[p]) = Len(items[p])

\* A pass over two records has sent both although the first send failed.
C13_Witness ==
  \E p \in Passes :
    /\ SendsDone(p)
    /\ Len(items[p]) = 2
    /\ Len(sends[p]) = 2
    /\ results[p][1] # "ok2xx"

\* C14: a read taken while another pass is still in its loop sees none of
\* the deletes of that pass applied, hence never only some of them: every
\* record that pass had run its delete on is in the array read.
C14_NoPartialDeletesSeen ==
  \A b \in Passes : midDel[b] \subseteq Ids(SnapshotOf(b))

\* A pass took its read while another pass, still sending, had already run
\* a delete.
C14_Witness ==
  \E b \in Passes : midDel[b] # {} /\ Len(items[b]) = 2

\* C18: a step changes the committed contents of the store only by a
\* queueReport call completing, which adds one record with the payload of
\* the call under an id not in use, or by a delete of a flush pass, which
\* only removes records it called delete on; every record that stays keeps
\* its id and payload, queueReport removes nothing and flushQueue inserts
\* nothing.
C18_StoreFrame ==
  [][ \/ Committed' = Committed
      \/ \E e \in Enqs :
           /\ qpc[e] = "adding" /\ qpc'[e] = "resolved"
           /\ \E r \in Committed' :
                /\ r.id \notin Ids(Committed)
                /\ r.data = qdata[e]
                /\ Committed' = Committed \cup {r}
      \/ \E p \in Passes :
           /\ delCalls'[p] # delCalls[p]
           /\ Committed' \subseteq Committed
           /\ Ids(Committed \ Committed') \subseteq delCalls'[p]
    ]_vars

\* A queueReport call has added a record next to an older one, and a pass
\* has sent a record and called delete on it.
C18_Witness ==
  /\ \E e \in Enqs : qpc[e] = "resolved" /\ qid[e] > 1
  /\ \E p \in Passes : delCalls[p] # {}
  /\ Cardinality(Committed) = 2

\* C16: a submission for which 'Report submitted' has been shown got a 2xx
\* response to its direct POST, or its call of queueReport resolved and left
\* a record holding the report.
C16_SubmittedMeansAcceptedOrQueued ==
  \A s \in Subs :
    spc[s] = "alerted" =>
      \/ directOutcome[s] = "ok2xx"
      \/ /\ senq[s] # 0
         /\ qpc[senq[s]] = "resolved"
         /\ [id |-> qid[senq[s]], data |-> report[s]] \in EverEnqueued

\* C20: when the direct POST of a submission failed and the report was
\* handed to queueReport, the payload queueReport got is the report whose
\* JSON text the direct POST carried, the record stored for it holds an
\* equal payload, media list included, and every later send of that record
\* by a flush pass carries the same JSON text as the direct POST.
C20_QueuedPayloadIsDirectPayload ==
  \A s \in Subs :
    (directOutcome[s] = "rejected" /\ senq[s] # 0) =>
      LET e == senq[s] IN
        /\ (qpc[e] \in {"adding", "resolved"}
              /\ txState[EnqOwner(e)] # "aborted") =>
             /\ qdata[e] = report[s]
             /\ JSONStringify(qdata[e]) = directBody[s]
        /\ \A r \in store :
             (qid[e] # 0 /\ r.id = qid[e]) =>
               /\ r.data = report[s]
               /\ JSONStringify(r.data) = directBody[s]
        /\ qpc[e] = "resolved" =>
             \A p \in Passes : \A k \in 1..Len(sends[p]) :
               sends[p][k].id = qid[e] => sends[p][k].body = directBody[s]

\* A report with a media reference whose direct POST failed has been queued
\* and then sent by a flush pass.
C20_Witness ==
  \E s \in Subs :
    /\ directOutcome[s] = "rejected"
    /\ report[s].media # <<>>
    /\ senq[s] # 0
    /\ qpc[senq[s]] = "resolved"
    /\ \E p \in Passes : \E k \in 1..Len(sends[p]) :
         sends[p][k].id = qid[senq[s]]

\* C17: after the page was stopped and loaded again, every record whose
\* enqueue had completed is in the store with the id and payload it was
\* given, unless a send of it was answered with a 2xx response.
C17_RecordsSurviveRestart ==
  restarts > 0 =>
    \A i \in 1..Len(enqLog) :
      \/ enqLog[i] \in store
      \/ enqLog[i].id \in confirmed \cup UNION {OkIds(p) : p \in Passes}

\* The page stopped while a pass over two records had one send confirmed
\* and the next one in flight; both records are in the store afterwards.
C17_Witness ==
  /\ restarts > 0
  /\ \E p \in Passes : stoppedAt[p] = "sending"
  /\ confirmed # {}
  /\ \E r \in store : r.id \notin confirmed /\ r \in EverEnqueued
  /\ Cardinality(store) = 2

====
